---- MODULE Spec2Model ----
(***************************************************************************)
(* Model of the heatmap Renderer component                                 *)
(*   src/client/src/features/dashboard/features/Heatmap/Renderer.jsx       *)
(*                                                                         *)
(* One render pass is a function of the props (width, height, data), the   *)
(* imported MARGIN and the four useMemo cells; the pointer handlers call   *)
(* the externally owned setter setHoveredCell.                             *)
(*                                                                         *)
(* JavaScript values are records [tag, n, d, s]: a number is the exact     *)
(* fraction n/d in lowest terms (d > 0), a string carries its text in s.   *)
(* Arithmetic is exact; binary floating point rounding is not modelled.    *)
(***************************************************************************)
EXTENDS Integers, Sequences, FiniteSets, TLC

\* setterCalls, lastOp, lastTarget and prevHovered record the last step taken:
\* the arguments it passed to the setter, which operation it was, the index of
\* the cell a pointer-enter hit, and whether the hover state was set before it.
VARIABLES MARGIN, width, height, data, dataId,
          allYGroups, allXGroups, xScale, yScale, deps,
          allRects, xLabels, yLabels,
          hoveredCell, setterCalls, lastOp, lastTarget, prevHovered

vars == <<MARGIN, width, height, data, dataId,
          allYGroups, allXGroups, xScale, yScale, deps,
          allRects, xLabels, yLabels,
          hoveredCell, setterCalls, lastOp, lastTarget, prevHovered>>

(***************************************************************************)
(* JavaScript values                                                       *)
(***************************************************************************)
Abs(i) == IF i < 0 THEN -i ELSE i

RECURSIVE Gcd(_, _)
Gcd(a, b) == IF b = 0 THEN a ELSE Gcd(b, a % b)

\* The number n/d, in lowest terms with a positive denominator.
Num(n, d) ==
  LET s == IF d < 0 THEN -1 ELSE 1
      g == Gcd(Abs(n), Abs(d))
  IN  [tag |-> "number", n |-> (s * n) \div g, d |-> (s * d) \div g, s |-> ""]

Integer(i) == Num(i, 1)
Str(t) == [tag |-> "string", n |-> 0, d |-> 1, s |-> t]
Undefined == [tag |-> "undefined", n |-> 0, d |-> 1, s |-> ""]
Null == [tag |-> "null", n |-> 0, d |-> 1, s |-> ""]

Add(a, b) == Num(a.n * b.d + b.n * a.d, a.d * b.d)
Sub(a, b) == Num(a.n * b.d - b.n * a.d, a.d * b.d)
Mul(a, b) == Num(a.n * b.n, a.d * b.d)
Div(a, b) == Num(a.n * b.d, a.d * b.n)
Less(a, b) == a.n * b.d < b.n * a.d
Max(a, b) == IF Less(a, b) THEN b ELSE a
Min(a, b) == IF Less(b, a) THEN b ELSE a

\* ToBoolean: undefined, null, 0 and "" are falsy.
Truthy(v) ==
  CASE v.tag = "number" -> v.n # 0
    [] v.tag = "string" -> v.s # ""
    [] OTHER -> FALSE

\* Math.round: the nearest integer, halves rounded towards +Infinity.
MathRound(v) == Integer((2 * v.n + v.d) \div (2 * v.d))

Digits == <<"0", "1", "2", "3", "4", "5", "6", "7", "8", "9">>

RECURSIVE NatText(_)
NatText(i) ==
  IF i < 10 THEN Digits[i + 1] ELSE NatText(i \div 10) \o Digits[(i % 10) + 1]

\* String(v) for the keys a DataPoint carries: strings and integers.
String(v) ==
  CASE v.tag = "string" -> v
    [] v.tag = "number" ->
         Str(IF v.n < 0 THEN "-" \o NatText(-v.n) ELSE NatText(v.n))
    [] v.tag = "null" -> Str("null")
    [] OTHER -> Str("undefined")

(***************************************************************************)
(* Arrays and insertion-ordered sets                                       *)
(***************************************************************************)
Contains(seq, v) == \E i \in 1..Len(seq) : seq[i] = v

IndexOf(seq, v) == CHOOSE i \in 1..Len(seq) : seq[i] = v /\ \A j \in 1..(i - 1) : seq[j] # v

\* set.add(seq[i]), ..., set.add(seq[Len(seq)]) on the set holding acc: a value
\* already held is not added again, a new one goes last.
RECURSIVE SetAddAll(_, _, _)
SetAddAll(acc, seq, i) ==
  IF i > Len(seq) THEN acc
  ELSE SetAddAll(IF Contains(acc, seq[i]) THEN acc ELSE Append(acc, seq[i]), seq, i + 1)

\* [...new Set(seq)]: the values in insertion order, each kept once.
NewSet(seq) == SetAddAll(<<>>, seq, 1)

Reverse(seq) == [i \in 1..Len(seq) |-> seq[Len(seq) + 1 - i]]

(***************************************************************************)
(* d3.scaleBand().range([r0, r1]).domain(domain).padding(padding)          *)
(* padding() sets the inner and the outer padding; align stays 0.5 and     *)
(* round stays false.  The scale is the immutable snapshot left by the     *)
(* last rescale().                                                         *)
(***************************************************************************)
Padding == Num(1, 10)

\* Bands packed against the start of the range.
AlignStart == Integer(0)

Align == Num(1, 2)

PaddingInner(padding) == Min(Integer(1), padding)

\* Outer padding left at its default.
PaddingOuterUnset(padding) == Integer(0)

PaddingOuter(padding) == padding

BandStep(start, stop, n, padding) ==
  Div(Sub(stop, start),
      Max(Integer(1),
          Add(Sub(Integer(n), PaddingInner(padding)),
              Mul(PaddingOuter(padding), Integer(2)))))

BandStart(start, stop, n, padding) ==
  LET step == BandStep(start, stop, n, padding)
  IN  Add(start,
          Mul(Sub(Sub(stop, start), Mul(step, Sub(Integer(n), PaddingInner(padding)))),
              Align))

\* The snapshot the last rescale() leaves.
ScaleBand(r0, r1, domain, padding) ==
  LET dom == NewSet(domain)
      n == Len(dom)
      reverse == Less(r1, r0)
      start == IF reverse THEN r1 ELSE r0
      stop == IF reverse THEN r0 ELSE r1
      step == BandStep(start, stop, n, padding)
      first == BandStart(start, stop, n, padding)
      values == [i \in 1..n |-> Add(first, Mul(step, Integer(i - 1)))]
  IN  [domain |-> dom,
       range |-> IF reverse THEN Reverse(values) ELSE values,
       step |-> step,
       bandwidth |-> Mul(step, Sub(Integer(1), PaddingInner(padding)))]

\* scale(key): the position of a key of the domain, undefined for any other.
Call(scale, key) ==
  IF Contains(scale.domain, key)
  THEN scale.range[((IndexOf(scale.domain, key) - 1) % Len(scale.range)) + 1]
  ELSE Undefined

Bandwidth(scale) == scale.bandwidth

(***************************************************************************)
(* One render pass of Renderer                                             *)
(***************************************************************************)
BoundsWidth(w, margin) == Integer(w - margin.right - margin.left)

BoundsHeight(h, margin) == Integer(h - margin.top - margin.bottom)

\* The y key canonicalized like the x key.
YOfText(d) == String(d.y)

YOf(d) == d.y

\* The x key taken as given.
XTextOfRaw(d) == d.x

XTextOf(d) == String(d.x)

AllYGroups(dat) == NewSet([i \in 1..Len(dat) |-> YOf(dat[i])])

AllXGroups(dat) == NewSet([i \in 1..Len(dat) |-> XTextOf(dat[i])])

XScale(boundsWidth, xGroups) == ScaleBand(Integer(0), boundsWidth, xGroups, Padding)

YScale(boundsHeight, yGroups) == ScaleBand(Integer(0), boundsHeight, yGroups, Padding)

\* The dependency arrays of the four useMemo calls.
GroupsDeps(id) == <<id>>

\* The x scale keyed on the width alone.
XScaleDepsWidthOnly(id, w) == <<w>>

XScaleDeps(id, w) == <<id, w>>

YScaleDeps(id, h) == <<id, h>>

\* useMemo: the factory runs on the first render and whenever a dependency
\* differs (Object.is) from the previous render's; else the cell is kept.
UseMemo(mounted, cell, prevDeps, nextDeps, fresh) ==
  IF ~mounted \/ prevDeps # nextDeps THEN fresh ELSE cell

\* The vertical anchor offset by the y scale's bandwidth.
HoverCellYBand(d, xPos, yPos, xs, ys, margin) ==
  [xLabel |-> String(d.x),
   yLabel |-> d.y,
   xPos |-> Add(Add(xPos, Bandwidth(xs)), Integer(margin.left)),
   yPos |-> Add(Add(yPos, Div(Bandwidth(ys), Integer(2))), Integer(margin.top)),
   value |-> IF Truthy(d.value)
             THEN Div(MathRound(Mul(d.value, Integer(100))), Integer(100))
             ELSE Null]

\* The argument the onMouseEnter closure of a cell passes to setHoveredCell;
\* the closure holds d, xPos, yPos and the pass's scales.
HoverCell(d, xPos, yPos, xs, ys, margin) ==
  [xLabel |-> String(d.x),
   yLabel |-> d.y,
   xPos |-> Add(Add(xPos, Bandwidth(xs)), Integer(margin.left)),
   yPos |-> Add(Add(yPos, Div(Bandwidth(xs), Integer(2))), Integer(margin.top)),
   value |-> IF Truthy(d.value)
             THEN Div(MathRound(Mul(d.value, Integer(100))), Integer(100))
             ELSE Null]

Fill(d) == IF Truthy(d.value) THEN "colorScale(d.value)" ELSE "#F8F8F8"

\* Width and height taken from the wrong scale.
RectSwapped(d, i, xs, ys, margin) ==
  LET xPos == Call(xs, String(d.x))
      yPos == Call(ys, d.y)
  IN  IF d.value = Null \/ ~Truthy(xPos) \/ ~Truthy(yPos)
      THEN Undefined
      ELSE [tag |-> "rect", key |-> i - 1, x |-> xPos, y |-> yPos,
            width |-> Bandwidth(ys), height |-> Bandwidth(xs),
            fill |-> Fill(d),
            onMouseEnter |-> HoverCell(d, xPos, yPos, xs, ys, margin)]

\* One element of data.map(...): a <rect>, or undefined for a skipped point.
Rect(d, i, xs, ys, margin) ==
  LET xPos == Call(xs, String(d.x))
      yPos == Call(ys, d.y)
  IN  IF d.value = Null \/ ~Truthy(xPos) \/ ~Truthy(yPos)
      THEN Undefined
      ELSE [tag |-> "rect", key |-> i - 1, x |-> xPos, y |-> yPos,
            width |-> Bandwidth(xs), height |-> Bandwidth(ys),
            fill |-> Fill(d),
            onMouseEnter |-> HoverCell(d, xPos, yPos, xs, ys, margin)]

XLabel(name, i, xs, boundsHeight) ==
  LET xPos == Call(xs, name)
  IN  IF Truthy(name)
      THEN [tag |-> "text", key |-> i - 1,
            x |-> Add(xPos, Div(Bandwidth(xs), Integer(2))),
            y |-> Add(boundsHeight, Integer(10)), text |-> name]
      ELSE Undefined

YLabel(name, i, ys) ==
  LET yPos == Call(ys, name)
  IN  IF Truthy(yPos)
      THEN [tag |-> "text", key |-> i - 1,
            x |-> Integer(-10),
            y |-> Add(yPos, Div(Bandwidth(ys), Integer(2))), text |-> name]
      ELSE Undefined

AllRects(dat, xs, ys, margin) == [i \in 1..Len(dat) |-> Rect(dat[i], i, xs, ys, margin)]

XLabels(xGroups, xs, boundsHeight) ==
  [i \in 1..Len(xGroups) |-> XLabel(xGroups[i], i, xs, boundsHeight)]

YLabels(yGroups, ys) == [i \in 1..Len(yGroups) |-> YLabel(yGroups[i], i, ys)]

\* The whole function body of Renderer for props (w, h, dat), dat being the
\* array object with identity id.
RenderPass(w, h, dat, id) ==
  LET mounted == lastOp # "init"
      boundsWidth == BoundsWidth(w, MARGIN)
      boundsHeight == BoundsHeight(h, MARGIN)
  IN  \E yGroups \in {UseMemo(mounted, allYGroups, deps.allYGroups, GroupsDeps(id),
                              AllYGroups(dat))} :
      \E xGroups \in {UseMemo(mounted, allXGroups, deps.allXGroups, GroupsDeps(id),
                              AllXGroups(dat))} :
      \E xs \in {UseMemo(mounted, xScale, deps.xScale, XScaleDeps(id, w),
                         XScale(boundsWidth, xGroups))} :
      \E ys \in {UseMemo(mounted, yScale, deps.yScale, YScaleDeps(id, h),
                         YScale(boundsHeight, yGroups))} :
        /\ width' = w
        /\ height' = h
        /\ data' = dat
        /\ dataId' = id
        /\ allYGroups' = yGroups
        /\ allXGroups' = xGroups
        /\ xScale' = xs
        /\ yScale' = ys
        /\ deps' = [allYGroups |-> GroupsDeps(id), allXGroups |-> GroupsDeps(id),
                    xScale |-> XScaleDeps(id, w), yScale |-> YScaleDeps(id, h)]
        /\ allRects' = AllRects(dat, xs, ys, MARGIN)
        /\ xLabels' = XLabels(xGroups, xs, boundsHeight)
        /\ yLabels' = YLabels(yGroups, ys)
        /\ lastOp' = "render"
        /\ lastTarget' = 0
        /\ setterCalls' = <<>>
        /\ prevHovered' = FALSE
        /\ UNCHANGED <<MARGIN, hoveredCell>>

\* The caller's setter: the hover state becomes the value it is given.
SetHoveredCell(v) ==
  /\ hoveredCell' = v
  /\ setterCalls' = <<v>>
  /\ prevHovered' = (hoveredCell # Null)

(***************************************************************************)
(* Inputs                                                                  *)
(***************************************************************************)
MaxLen == 4

MaxLiveLen == 2

Pi == Num(314159, 100000)

Point(x, y, value) == [x |-> x, y |-> y, value |-> value]

Points ==
  { Point(Integer(1), Str("b"), Integer(5)),
    Point(Integer(2), Str("b"), Null),
    Point(Str("1"), Integer(1), Integer(0)),
    Point(Integer(3), Str("a"), Undefined),
    Point(Integer(2), Str("1"), Pi) }

LivePoints ==
  { Point(Integer(1), Str("b"), Pi),
    Point(Str("2"), Integer(1), Integer(0)) }

Arrays(points, maxLen) == UNION {[1..k -> points] : k \in 0..maxLen}

Widths == {2, 3, 5}

Heights == {2, 4}

Margins ==
  { [top |-> 1, right |-> 1, bottom |-> 1, left |-> 2],
    [top |-> 0, right |-> 0, bottom |-> 1, left |-> 1] }

(***************************************************************************)
(* The component's life: mount, re-renders on prop changes, pointer events *)
(***************************************************************************)
Unmounted(dataSet) ==
  /\ MARGIN \in Margins
  /\ width \in Widths
  /\ height \in Heights
  /\ data \in dataSet
  /\ dataId = 0
  /\ allYGroups = <<>>
  /\ allXGroups = <<>>
  /\ xScale = Undefined
  /\ yScale = Undefined
  /\ deps = [allYGroups |-> <<>>, allXGroups |-> <<>>, xScale |-> <<>>, yScale |-> <<>>]
  /\ allRects = <<>>
  /\ xLabels = <<>>
  /\ yLabels = <<>>
  /\ hoveredCell = Null
  /\ setterCalls = <<>>
  /\ lastOp = "init"
  /\ lastTarget = 0
  /\ prevHovered = FALSE

Init == Unmounted(Arrays(LivePoints, MaxLiveLen))

\* The first render.
Mount ==
  /\ lastOp = "init"
  /\ RenderPass(width, height, data, dataId)

\* The parent renders again with the same props.
Rerender ==
  /\ lastOp # "init"
  /\ RenderPass(width, height, data, dataId)

\* The parent passes a new data array (a new object, whatever it holds).
NewData ==
  /\ lastOp # "init"
  /\ \E dat \in Arrays(LivePoints, MaxLiveLen) : RenderPass(width, height, dat, 1 - dataId)

NewWidth ==
  /\ lastOp # "init"
  /\ \E w \in Widths \ {width} : RenderPass(w, height, data, dataId)

NewHeight ==
  /\ lastOp # "init"
  /\ \E h \in Heights \ {height} : RenderPass(width, h, data, dataId)

\* onMouseEnter of the i-th element of allRects, when it is a <rect>.
MouseEnter ==
  /\ lastOp # "init"
  /\ \E i \in 1..Len(allRects) :
       /\ allRects[i] # Undefined
       /\ SetHoveredCell(allRects[i].onMouseEnter)
       /\ lastTarget' = i
  /\ lastOp' = "enter"
  /\ UNCHANGED <<MARGIN, width, height, data, dataId, allYGroups, allXGroups,
                 xScale, yScale, deps, allRects, xLabels, yLabels>>

\* The leave handler calling the setter with no argument.
MouseLeaveUndefined ==
  /\ lastOp # "init"
  /\ SetHoveredCell(Undefined)
  /\ lastOp' = "leave"
  /\ lastTarget' = 0
  /\ UNCHANGED <<MARGIN, width, height, data, dataId, allYGroups, allXGroups,
                 xScale, yScale, deps, allRects, xLabels, yLabels>>

\* onMouseLeave of the <svg>.
MouseLeave ==
  /\ lastOp # "init"
  /\ SetHoveredCell(Null)
  /\ lastOp' = "leave"
  /\ lastTarget' = 0
  /\ UNCHANGED <<MARGIN, width, height, data, dataId, allYGroups, allXGroups,
                 xScale, yScale, deps, allRects, xLabels, yLabels>>

Next == Mount \/ Rerender \/ NewData \/ NewWidth \/ NewHeight \/ MouseEnter \/ MouseLeave

Spec == Init /\ [][Next]_vars

\* A single render pass over a wider range of inputs.
PassInit == Unmounted(Arrays(Points, MaxLen))

PassNext == Mount

PassSpec == PassInit /\ [][PassNext]_vars

(***************************************************************************)
(* Properties                                                              *)
(***************************************************************************)
Rendered == lastOp # "init"

IsElement(e) == e # Undefined

RectIndices == {i \in 1..Len(allRects) : IsElement(allRects[i])}

Range(seq) == {seq[i] : i \in 1..Len(seq)}

NoDuplicates(seq) == \A i, j \in 1..Len(seq) : i # j => seq[i] # seq[j]

\* seq lists the values of src once each, in the order of their first occurrence.
FirstSeenOrder(seq, src) ==
  /\ NoDuplicates(seq)
  /\ Range(seq) = Range(src)
  /\ \A i, j \in 1..Len(seq) : i < j => IndexOf(src, seq[i]) < IndexOf(src, seq[j])

XKeys == [i \in 1..Len(data) |-> data[i].x]

YKeys == [i \in 1..Len(data) |-> data[i].y]

ValuePresent(d) == d.value # Null /\ d.value # Undefined

\* C1: one render pass emits exactly as many rectangles as there are data
\* points whose value is present (neither null nor missing).
C1_RectCount ==
  Rendered =>
    Cardinality(RectIndices) =
      Cardinality({i \in 1..Len(data) : ValuePresent(data[i])})

\* The text of a key, read off its representation.
KeyText(v) == IF v.tag = "string" THEN v.s ELSE NatText(v.n)

XTexts == [i \in 1..Len(data) |-> Str(KeyText(data[i].x))]

\* C2: the X domain is the text forms of the x keys, each once, in first-seen
\* order (never sorted); 1 and "1" give one entry "1"; [1, 2, 1, 3] gives
\* ["1", "2", "3"]; empty data gives the empty domain.
C2_XDomain ==
  Rendered =>
    /\ FirstSeenOrder(allXGroups, XTexts)
    /\ (Integer(1) \in Range(XKeys) /\ Str("1") \in Range(XKeys))
         => Cardinality({i \in 1..Len(allXGroups) : allXGroups[i] = Str("1")}) = 1
    /\ XKeys = <<Integer(1), Integer(2), Integer(1), Integer(3)>>
         => allXGroups = <<Str("1"), Str("2"), Str("3")>>
    /\ data = <<>> => allXGroups = <<>>

C2_Witness ==
  /\ Rendered
  /\ XKeys = <<Integer(1), Integer(2), Integer(1), Integer(3)>>
  /\ allXGroups = <<Str("1"), Str("2"), Str("3")>>

\* C3: the Y domain is the y keys as given, each once, in first-seen order;
\* the number 1 and the text "1" stay two entries; ["b", "a", "b"] gives
\* ["b", "a"].
C3_YDomain ==
  Rendered =>
    /\ FirstSeenOrder(allYGroups, YKeys)
    /\ (Integer(1) \in Range(YKeys) /\ Str("1") \in Range(YKeys))
         => (Contains(allYGroups, Integer(1)) /\ Contains(allYGroups, Str("1")))
    /\ YKeys = <<Str("b"), Str("a"), Str("b")>> => allYGroups = <<Str("b"), Str("a")>>

C3_Witness ==
  /\ Rendered
  /\ YKeys = <<Str("b"), Str("a"), Str("b")>>
  /\ allYGroups = <<Str("b"), Str("a")>>

One == Integer(1)

Zero == Integer(0)

\* The band of a scale over n >= 1 categories and an extent, as the design
\* text states it: n equal slots of extent/n, each shortened by the padding,
\* the i-th band starting half a padding gap into its slot.
SlotBand(scale, extent) ==
  LET n == Len(scale.domain)
      slot == Div(extent, Integer(n))
  IN  n >= 1 =>
        /\ Bandwidth(scale) = Mul(slot, Sub(One, Padding))
        /\ n = 1 => Bandwidth(scale) = Mul(extent, Sub(One, Padding))
        /\ \A i \in 1..n :
             Call(scale, scale.domain[i]) =
               Add(Mul(Integer(i - 1), slot), Div(Mul(slot, Padding), Integer(2)))

\* C6 as claimed: bandwidth = extent/n * (1 - padding), position of index i =
\* i * (extent/n) + half the padding gap; one category: extent * (1 - padding).
C6_SlotBand ==
  Rendered =>
    /\ SlotBand(xScale, BoundsWidth(width, MARGIN))
    /\ SlotBand(yScale, BoundsHeight(height, MARGIN))

\* The band of a scale whose padding is also applied outside the first and the
\* last band: the extent holds n + padding steps.
PaddedBand(scale, extent) ==
  LET n == Len(scale.domain)
      size == IF Less(extent, Zero) THEN Sub(Zero, extent) ELSE extent
      step == Div(size, Max(One, Add(Integer(n), Padding)))
  IN  /\ Bandwidth(scale) = Mul(step, Sub(One, Padding))
      /\ n = 1 => Bandwidth(scale) =
                    Div(Mul(size, Sub(One, Padding)), Add(One, Padding))
      /\ \A i \in 1..n :
           Call(scale, scale.domain[i]) =
             IF Less(extent, Zero)
             THEN Add(extent, Mul(Add(Integer(n - i), Padding), step))
             ELSE Mul(Add(Integer(i - 1), Padding), step)

\* C6, amended: step = |extent| / max(1, n + padding), bandwidth = step *
\* (1 - padding), and the category at index i lies at (i + padding) * step
\* (counted from the far end when the extent is negative); one category:
\* bandwidth = |extent| * (1 - padding) / (1 + padding).
C6_PaddedBand ==
  Rendered =>
    /\ PaddedBand(xScale, BoundsWidth(width, MARGIN))
    /\ PaddedBand(yScale, BoundsHeight(height, MARGIN))

C6_Witness ==
  /\ Rendered
  /\ Len(xScale.domain) = 1
  /\ Less(Zero, BoundsWidth(width, MARGIN))
  /\ Len(yScale.domain) >= 2
  /\ Less(Zero, BoundsHeight(height, MARGIN))
  /\ PaddedBand(xScale, BoundsWidth(width, MARGIN))

\* C7: every rectangle of a pass has the x scale's bandwidth as width and the
\* y scale's as height, and every rectangle and label is placed by the pass's
\* one xScale and one yScale, so all rectangles share one width and one height.
C7_SharedBandwidth ==
  Rendered =>
    /\ \A i \in RectIndices :
         /\ allRects[i].width = Bandwidth(xScale)
         /\ allRects[i].height = Bandwidth(yScale)
         /\ allRects[i].x = Call(xScale, Str(KeyText(data[i].x)))
         /\ allRects[i].y = Call(yScale, data[i].y)
    /\ \A i, j \in RectIndices :
         /\ allRects[i].width = allRects[j].width
         /\ allRects[i].height = allRects[j].height
    /\ \A i \in 1..Len(xLabels) :
         IsElement(xLabels[i]) =>
           xLabels[i].x = Add(Call(xScale, allXGroups[i]),
                              Div(Bandwidth(xScale), Integer(2)))
    /\ \A i \in 1..Len(yLabels) :
         IsElement(yLabels[i]) =>
           yLabels[i].y = Add(Call(yScale, allYGroups[i]),
                              Div(Bandwidth(yScale), Integer(2)))

C7_Witness ==
  /\ Rendered
  /\ Cardinality(RectIndices) >= 2
  /\ Bandwidth(xScale) # Bandwidth(yScale)
  /\ \E i \in 1..Len(yLabels) : IsElement(yLabels[i])

FirstX(i) == allXGroups # <<>> /\ Str(KeyText(data[i].x)) = allXGroups[1]

FirstY(i) == allYGroups # <<>> /\ data[i].y = allYGroups[1]

\* C8 as claimed: the first category of either axis has position 0 and is
\* dropped: no rectangle for a point in the first X or the first Y category,
\* no Y label for the first Y category.
C8_FirstDropped ==
  Rendered =>
    /\ \A i \in 1..Len(data) : (FirstX(i) \/ FirstY(i)) => ~IsElement(allRects[i])
    /\ yLabels # <<>> => ~IsElement(yLabels[1])

\* C8, amended: the test is on truthiness, so a position of 0 counts as not
\* found, but the first category lies at padding * step, which is 0 only when
\* the drawable extent is 0.  A rectangle is emitted for a point, first
\* categories included, exactly when its value is not null and neither
\* drawable extent is 0; a Y label is emitted for a category, the first
\* included, exactly when the drawable height is not 0.
C8_ZeroExtentDropped ==
  Rendered =>
    /\ \A i \in 1..Len(data) :
         IsElement(allRects[i]) <=>
           /\ data[i].value # Null
           /\ BoundsWidth(width, MARGIN) # Zero
           /\ BoundsHeight(height, MARGIN) # Zero
    /\ \A i \in 1..Len(allYGroups) :
         IsElement(yLabels[i]) <=> BoundsHeight(height, MARGIN) # Zero
    /\ \A i \in 1..Len(allXGroups) :
         Call(xScale, allXGroups[i]) = Zero <=> BoundsWidth(width, MARGIN) = Zero
    /\ \A i \in 1..Len(allYGroups) :
         Call(yScale, allYGroups[i]) = Zero <=> BoundsHeight(height, MARGIN) = Zero

C8_Witness ==
  /\ Rendered
  /\ \E i \in RectIndices : FirstX(i) /\ FirstY(i)
  /\ \E i \in 1..Len(data) :
       data[i].value # Null /\ ~FirstX(i) /\ ~FirstY(i) /\ IsElement(allRects[i])
  /\ IsElement(yLabels[1])

\* C4: right after a pointer-leave from the surface the hover state is null,
\* whatever it was before: the handler makes the one call setHoveredCell(null).
C4_LeaveClears ==
  lastOp = "leave" => (hoveredCell = Null /\ setterCalls = <<Null>>)

C4_Witness ==
  /\ lastOp = "leave"
  /\ prevHovered
  /\ hoveredCell = Null
  /\ RectIndices # {}

\* A number rounded to 2 decimals.
Round2(v) == Num((2 * 100 * v.n + v.d) \div (2 * v.d), 100)

\* C5: after a pointer-enter over the cell of point d, the descriptor's value
\* is d.value rounded to 2 decimals whenever d.value is a number (0 included),
\* and absent only when d.value is absent.
C5_HoverValue ==
  lastOp = "enter" =>
    LET d == data[lastTarget]
        arg == setterCalls[1]
    IN  /\ d.value.tag = "number" => arg.value = Round2(d.value)
        /\ d.value.tag # "number" => arg.value = Null

\* The memoized cells and the output, computed from the current props alone.
FreshXScale == XScale(BoundsWidth(width, MARGIN), AllXGroups(data))

FreshYScale == YScale(BoundsHeight(height, MARGIN), AllYGroups(data))

\* C9: after any sequence of prop changes and re-renders the memoized domains
\* and scales, and the rectangles and labels drawn from them, equal the ones
\* computed from scratch from the current props.
C9_MemoFresh ==
  Rendered =>
    /\ allXGroups = AllXGroups(data)
    /\ allYGroups = AllYGroups(data)
    /\ xScale = FreshXScale
    /\ yScale = FreshYScale
    /\ allRects = AllRects(data, FreshXScale, FreshYScale, MARGIN)
    /\ xLabels = XLabels(AllXGroups(data), FreshXScale, BoundsHeight(height, MARGIN))
    /\ yLabels = YLabels(AllYGroups(data), FreshYScale)

C9_Witness ==
  /\ lastOp = "render"
  /\ dataId = 1
  /\ hoveredCell # Null
  /\ Len(xScale.domain) = 2
  /\ RectIndices # {}

\* C10: a pointer-enter over the cell of point d makes one setter call, with
\* xLabel = text of d.x, yLabel = d.y, xPos = cell x + x bandwidth + left
\* margin, yPos = cell y + (x bandwidth)/2 + top margin; a re-render makes no
\* setter call and leaves the hover state as it was.
C10_Enter ==
  /\ [](lastOp = "enter" =>
          LET d == data[lastTarget]
              cell == allRects[lastTarget]
          IN  /\ setterCalls = <<hoveredCell>>
              /\ hoveredCell.xLabel = Str(KeyText(d.x))
              /\ hoveredCell.yLabel = d.y
              /\ hoveredCell.xPos =
                   Add(Add(cell.x, Bandwidth(xScale)), Integer(MARGIN.left))
              /\ hoveredCell.yPos =
                   Add(Add(cell.y, Div(Bandwidth(xScale), Integer(2))),
                       Integer(MARGIN.top)))
  /\ [][lastOp' = "render" => (hoveredCell' = hoveredCell /\ setterCalls' = <<>>)]_vars

C10_Witness ==
  /\ lastOp = "enter"
  /\ hoveredCell # Null
  /\ Bandwidth(xScale) # Bandwidth(yScale)
  /\ data[lastTarget].x.tag = "number"
  /\ MARGIN.left # MARGIN.top

====
